---- MODULE Spec2Model ----
(***************************************************************************)
(* Model of arch-wiki-docs-zh: the ArchWiki helper class                   *)
(* (src/ArchWiki/ArchWiki.py) and the main script (src/arch-wiki-docs.py). *)
(*                                                                         *)
(* Python strings are modelled as sequences of one-character strings, so   *)
(* that replace(), the regular expression of detect_namespace, format()    *)
(* and os.path.normpath are computed character by character.              *)
(***************************************************************************)
EXTENDS Integers, Sequences, FiniteSets, TLC

VARIABLES
    \* ---- title functions (detect_namespace, get_local_filename)
    tpc,                \* position of the title driver
    title,              \* the raw title handed to the functions
    basepath,           \* the 'basepath' argument of get_local_filename
    pure_title,         \* detect_namespace: first component of the result
    detected_namespace, \* detect_namespace: second component of the result
    rejoined,           \* namespace:pure_title re-joined with underscores
    re_result,          \* detect_namespace(rejoined)
    path,               \* get_local_filename(title, basepath)
    other,              \* a second title (collision check)
    other_identity,     \* detect_namespace(other)
    other_path,         \* get_local_filename(other, basepath)
    \* ---- redirects: resolve_redirect, _fetch_redirects, query_continue
    fpc,                \* position inside resolve_redirect/_fetch_redirects/query_continue
    redirects_none,     \* self._redirects is None
    redirects,          \* self._redirects (a dict: source title -> target)
    ns_index,           \* position of 'for ns in namespaces' in _fetch_redirects
    query,              \* query_allredirects, the caller's base query (a dict)
    last_continue,      \* query_continue: last_continue
    result,             \* query_continue: result of the last self.call
    requests,           \* the query_copy handed to self.call, per call of query_continue
    responses,          \* what self.call answered, per call of query_continue
    yielded,            \* the batches yielded, per call of query_continue
    printed,            \* the warnings printed, per call of query_continue
    exc,                \* the payload of the raised exception
    resolve_arg,        \* resolve_redirect: the title argument
    resolve_result,     \* resolve_redirect: the returned title
    \* ---- the main script
    mpc,                \* position in the main script
    force,              \* args.force
    clean,              \* args.clean
    now,                \* the clock at startup
    epoch,              \* the freshness epoch handed to the Downloader
    started,            \* the namespaces process_namespace was called with
    completed,          \* the namespaces process_namespace returned from
    page_ts,            \* last-revision timestamp of the page being decided
    page_exists,        \* whether its local file exists
    decision,           \* the fetch decision for it
    cleaned             \* clean_output_directory was invoked

titleVars == <<tpc, title, basepath, pure_title, detected_namespace,
               rejoined, re_result, path, other, other_identity, other_path>>

queryVars == <<fpc, redirects_none, redirects, ns_index, query, last_continue,
               result, requests, responses, yielded, printed, exc, resolve_arg,
               resolve_result>>

mainVars == <<mpc, force, clean, now, epoch, started, completed, page_ts,
              page_exists, decision, cleaned>>

vars == <<titleVars, queryVars, mainVars>>

None == <<"None">>      \* Python's None (no string of the model has length-4 characters)

EmptyDict == <<>>       \* Python's {}: the function with the empty domain

\* the title functions, not running
TitleOff ==
    /\ tpc = "off"
    /\ title = None
    /\ basepath = None
    /\ pure_title = None
    /\ detected_namespace = None
    /\ rejoined = None
    /\ re_result = None
    /\ path = None
    /\ other = None
    /\ other_identity = None
    /\ other_path = None

\* the main script, not running
MainOff ==
    /\ mpc = "off"
    /\ force = FALSE
    /\ clean = FALSE
    /\ now = 0
    /\ epoch = 0
    /\ started = <<>>
    /\ completed = <<>>
    /\ page_ts = 0
    /\ page_exists = FALSE
    /\ decision = "none"
    /\ cleaned = FALSE

\* the redirect table, not in use
QueryOff ==
    /\ fpc = "off"
    /\ redirects_none = TRUE
    /\ redirects = EmptyDict
    /\ ns_index = 0
    /\ query = EmptyDict
    /\ last_continue = EmptyDict
    /\ result = EmptyDict
    /\ requests = <<>>
    /\ responses = <<>>
    /\ yielded = <<>>
    /\ printed = <<>>
    /\ exc = ""
    /\ resolve_arg = None
    /\ resolve_result = None

-----------------------------------------------------------------------------
(* Bounds *)

MaxLen == 3             \* longest generated remainder of a title
MaxPathLen == 4         \* longest generated title of the collision check
MaxRequests == 3        \* most requests followed in one call of query_continue
MaxTime == 3            \* the clock and the timestamps range over 0..MaxTime

-----------------------------------------------------------------------------
(* Strings *)

Str_Main == <<"M", "a", "i", "n">>
Str_Talk == <<"T", "a", "l", "k">>
Str_ArchWiki == <<"A", "r", "c", "h", "W", "i", "k", "i">>
Str_ArchWiki_talk == <<"A", "r", "c", "h", "W", "i", "k", "i", "_", "t", "a", "l", "k">>
Str_Template == <<"T", "e", "m", "p", "l", "a", "t", "e">>
Str_Template_talk == <<"T", "e", "m", "p", "l", "a", "t", "e", "_", "t", "a", "l", "k">>
Str_Help == <<"H", "e", "l", "p">>
Str_Help_talk == <<"H", "e", "l", "p", "_", "t", "a", "l", "k">>
Str_Category == <<"C", "a", "t", "e", "g", "o", "r", "y">>
Str_Category_talk == <<"C", "a", "t", "e", "g", "o", "r", "y", "_", "t", "a", "l", "k">>
Str_File == <<"F", "i", "l", "e">>
Str_User == <<"U", "s", "e", "r">>
Str_help == <<"h", "e", "l", "p">>
Str_Help_sp_talk == <<"H", "e", "l", "p", " ", "t", "a", "l", "k">>
Str_zh_hans == <<"z", "h", "-", "h", "a", "n", "s">>
Str_html == <<"h", "t", "m", "l">>
Str_out == <<"/", "o", "u", "t">>
Str_Installation_guide == <<"I", "n", "s", "t", "a", "l", "l", "a", "t", "i", "o", "n",
                            " ", "g", "u", "i", "d", "e">>
Str_Template_Note == <<"T", "e", "m", "p", "l", "a", "t", "e", ":", "N", "o", "t", "e">>

\* str.replace(old, new) for one-character old and new
Replace(s, old, new) ==
    [i \in 1..Len(s) |-> IF s[i] = old THEN new ELSE s[i]]

\* all strings over alphabet A of length at most n
StringsUpTo(A, n) == UNION {[1..k -> A] : k \in 0..n}

-----------------------------------------------------------------------------
(* ArchWiki.namespaces *)

\* what MediaWiki.namespaces() of the wiki answers: id -> display name, the
\* Main namespace with the empty name
WikiNamespaces ==
    (0 :> <<>>) @@ (2 :> Str_User) @@ (6 :> Str_File) @@ (10 :> Str_Template)
    @@ (12 :> Str_Help) @@ (13 :> Str_Help_sp_talk)

\* namespaces(): the cached mapping with self._namespaces[0] = "Main"
namespaces == [WikiNamespaces EXCEPT ![0] = Str_Main]

namespace_values == {namespaces[i] : i \in DOMAIN namespaces}

-----------------------------------------------------------------------------
(* ArchWiki.detect_namespace *)

\* re.match("^((.+):)?(.+)$", title): the greedy (.+) of group 2 ends at the
\* LAST colon that leaves a non-empty group 2 before it and a non-empty
\* group 3 after it; without such a colon the optional group does not take
\* part and group 3 is the whole title.  The result is <<group(2), group(3)>>.
MatchColons(t) == {k \in 2..(Len(t) - 1) : t[k] = ":"}

SplitAtLastColon(t) ==
    IF MatchColons(t) = {}
    THEN <<None, t>>
    ELSE LET k == CHOOSE c \in MatchColons(t) : \A d \in MatchColons(t) : d <= c
         IN  <<SubSeq(t, 1, k - 1), SubSeq(t, k + 1, Len(t))>>

RegexMatch(t) == SplitAtLastColon(t)

\* detect_namespace(title) = <<pure_title, detected_namespace>>
detect_namespace(t) ==
    LET match == RegexMatch(t)
        ns0 == match[1]
    IN  IF ns0 # None
        THEN LET ns == Replace(ns0, "_", " ")
             IN  IF ns \in namespace_values
                 THEN <<match[2], ns>>
                 ELSE <<t, namespaces[0]>>
        ELSE <<t, namespaces[0]>>

-----------------------------------------------------------------------------
(* os.path.normpath (POSIX), as get_local_filename applies it *)

\* path.split('/'): the components between the slashes, empty ones included
RECURSIVE SplitSlash(_)
SplitSlash(p) ==
    IF \A i \in 1..Len(p) : p[i] # "/"
    THEN <<p>>
    ELSE LET k == CHOOSE i \in 1..Len(p) :
                      p[i] = "/" /\ \A j \in 1..(i - 1) : p[j] # "/"
         IN  <<SubSeq(p, 1, k - 1)>> \o SplitSlash(SubSeq(p, k + 1, Len(p)))

\* '/'.join(comps)
RECURSIVE JoinSlash(_)
JoinSlash(comps) ==
    IF Len(comps) = 0 THEN <<>>
    ELSE IF Len(comps) = 1 THEN comps[1]
    ELSE comps[1] \o <<"/">> \o JoinSlash(Tail(comps))

\* the loop over comps: skip '' and '.', pop on '..', keep a leading '..' of
\* a relative path
RECURSIVE NormComps(_, _, _)
NormComps(comps, new_comps, initial_slashes) ==
    IF Len(comps) = 0 THEN new_comps
    ELSE LET comp == comps[1]
             rest == Tail(comps)
         IN  IF comp = <<>> \/ comp = <<".">>
             THEN NormComps(rest, new_comps, initial_slashes)
             ELSE IF \/ comp # <<".", ".">>
                     \/ (initial_slashes = 0 /\ Len(new_comps) = 0)
                     \/ (Len(new_comps) > 0 /\ new_comps[Len(new_comps)] = <<".", ".">>)
             THEN NormComps(rest, Append(new_comps, comp), initial_slashes)
             ELSE IF Len(new_comps) > 0
             THEN NormComps(rest, SubSeq(new_comps, 1, Len(new_comps) - 1), initial_slashes)
             ELSE NormComps(rest, new_comps, initial_slashes)

StartsWith(p, n) == Len(p) >= n /\ \A i \in 1..n : p[i] = "/"

normpath(p) ==
    IF Len(p) = 0 THEN <<".">>
    ELSE LET initial_slashes ==
                 IF ~StartsWith(p, 1) THEN 0
                 ELSE IF StartsWith(p, 2) /\ ~StartsWith(p, 3) THEN 2
                 ELSE 1
             joined == JoinSlash(NormComps(SplitSlash(p), <<>>, initial_slashes))
             full == [i \in 1..initial_slashes |-> "/"] \o joined
         IN  IF Len(full) = 0 THEN <<".">> ELSE full

-----------------------------------------------------------------------------
(* ArchWiki.get_local_filename *)

langsubtag == Str_zh_hans
ext == Str_html

\* mutant: the list written with the display names (spaces) although the
\* namespace compared with it already has underscores
ContentNamespaces_spaces ==
    {Str_Talk, Str_ArchWiki, Replace(Str_ArchWiki_talk, "_", " "), Str_Template,
     Replace(Str_Template_talk, "_", " "), Str_Help, Str_Help_sp_talk, Str_Category,
     Replace(Str_Category_talk, "_", " ")}

\* the list of the second branch
ContentNamespaces ==
    {Str_Talk, Str_ArchWiki, Str_ArchWiki_talk, Str_Template, Str_Template_talk,
     Str_Help, Str_Help_talk, Str_Category, Str_Category_talk}

\* pattern.format(...) of the pattern selected per namespace
FormatPattern(namespace, t, base) ==
    IF namespace = Str_Main
    THEN base \o <<"/">> \o langsubtag \o <<"/">> \o t \o <<".">> \o ext
    ELSE IF namespace \in ContentNamespaces
    THEN base \o <<"/">> \o langsubtag \o <<"/">> \o namespace \o <<":">> \o t
              \o <<".">> \o ext
    ELSE IF namespace = Str_File
    THEN base \o <<"/">> \o namespace \o <<":">> \o t
    ELSE base \o <<"/">> \o namespace \o <<":">> \o t \o <<".">> \o ext

get_local_filename(t, base) ==
    LET d == detect_namespace(t)
        title_ == Replace(d[1], " ", "_")
        namespace_ == Replace(d[2], " ", "_")
    IN  normpath(FormatPattern(namespace_, title_, base))

-----------------------------------------------------------------------------
(* ArchWiki.query_continue *)

\* dict.update: d overridden by u
Update(d, u) ==
    [k \in (DOMAIN d) \cup (DOMAIN u) |-> IF k \in DOMAIN u THEN u[k] ELSE d[k]]

\* last_continue = {"continue": ""}
InitialContinue == "continue" :> ""

\* mutant: no copy, the caller's dict itself is updated
MergeContinue_inplace(q, lc) == [query |-> Update(q, lc), query_copy |-> Update(q, lc)]

\* query_copy = query.copy(); query_copy.update(last_continue): the caller's
\* dict after the two statements, and the dict handed to self.call
MergeContinue(q, lc) == [query |-> q, query_copy |-> Update(q, lc)]

\* mutant: the continuation check placed before the yield
AfterCall_breakFirst(res) ==
    IF "error" \in DOMAIN res THEN "raise"
    ELSE IF "continue" \notin DOMAIN res THEN "break"
    ELSE IF "query" \in DOMAIN res THEN "yield"
    ELSE "loop"

\* mutant: the results section yielded before the error check
AfterCall_yieldFirst(res) ==
    IF "query" \in DOMAIN res THEN "yield"
    ELSE IF "error" \in DOMAIN res THEN "raise"
    ELSE IF "continue" \notin DOMAIN res THEN "break"
    ELSE "loop"

\* after self.call: the error check comes first, then the results section
AfterCall(res) ==
    IF "error" \in DOMAIN res THEN "raise"
    ELSE IF "query" \in DOMAIN res THEN "yield"
    ELSE IF "continue" \notin DOMAIN res THEN "break"
    ELSE "loop"

\* after the consumer resumes the generator: the continuation check
AfterYield(res) ==
    IF "continue" \notin DOMAIN res THEN "break" ELSE "loop"

\* print(result["warnings"])
PrintWarnings(out, res) ==
    IF "error" \notin DOMAIN res /\ "warnings" \in DOMAIN res
    THEN Append(out, res["warnings"])
    ELSE out

-----------------------------------------------------------------------------
(* The wiki behind self.call *)

Str_a == <<"a">>
Str_b == <<"b">>
Str_c == <<"c">>
Str_d == <<"d">>
Str_e == <<"e">>
Str_f == <<"f">>
Str_g == <<"g">>
Str_a_sp_b == <<"a", " ", "b">>
Str_a_us_b == <<"a", "_", "b">>
Str_z == <<"z">>
Str_z_us_z == <<"z", "_", "z">>

\* the "query" section the wiki holds per namespace: {"pages": {pageid: page}},
\* page = {"title": ..., "redirects": [{"title": ..., "fragment": ...}]} with
\* "redirects" and "fragment" optional
WikiPages ==
    ("0" :> ("pages" :>
        (1 :> ("title" :> Str_b @@ "redirects" :>
                  << ("title" :> Str_a_sp_b),
                     ("title" :> Str_c @@ "fragment" :> Str_f) >>)
         @@ 2 :> ("title" :> Str_a @@ "redirects" :> << ("title" :> Str_c) >>))))
    @@ ("4" :> ("pages" :> (3 :> ("title" :> Str_d))))
    @@ ("12" :> ("pages" :>
        (4 :> ("title" :> Str_e @@ "redirects" :>
                  << ("title" :> Str_g @@ "fragment" :> <<>>) >>))))
    @@ ("14" :> ("pages" :> (5 :> ("title" :> Str_f))))

\* the continuation sections the wiki hands out: several sub-parameters, not
\* the same ones each time
Continues ==
    { ("continue" :> "gapcontinue||" @@ "rdcontinue" :> "7|1"),
      ("continue" :> "-||" @@ "gapcontinue" :> "B") }

Errors == {"badtoken"}

Warnings == {"deprecated"}

\* a dict with the key k or without it
Opt(k, V) == {EmptyDict} \cup {k :> v : v \in V}

\* every response self.call may give to a query of namespace ns
Responses(ns) ==
    {e @@ w @@ q @@ c : e \in Opt("error", Errors), w \in Opt("warnings", Warnings),
                        q \in Opt("query", {WikiPages[ns]}), c \in Opt("continue", Continues)}

-----------------------------------------------------------------------------
(* ArchWiki._fetch_redirects, redirects, resolve_redirect *)

query_allredirects ==
    ("action" :> "query") @@ ("generator" :> "allpages") @@ ("gaplimit" :> "max")
    @@ ("gapfilterredir" :> "nonredirects") @@ ("prop" :> "redirects")
    @@ ("rdprop" :> "title|fragment") @@ ("rdlimit" :> "max")

fetch_namespaces == <<"0", "4", "12", "14">>

\* code points of the characters that titles of the wiki are made of
CharCode ==
    (" " :> 32) @@ ("#" :> 35) @@ ("_" :> 95) @@ ("a" :> 97) @@ ("b" :> 98)
    @@ ("c" :> 99) @@ ("d" :> 100) @@ ("e" :> 101) @@ ("f" :> 102) @@ ("g" :> 103)
    @@ ("z" :> 122)

\* Python's s < t on strings
RECURSIVE StrLess(_, _)
StrLess(s, t) ==
    IF Len(t) = 0 THEN FALSE
    ELSE IF Len(s) = 0 THEN TRUE
    ELSE IF s[1] # t[1] THEN CharCode[s[1]] < CharCode[t[1]]
    ELSE StrLess(Tail(s), Tail(t))

\* sorted(pages_snippet["pages"].values(), key=lambda d: d["title"]); the
\* titles of one batch are distinct
RECURSIVE SortedPages(_)
SortedPages(pages) ==
    IF DOMAIN pages = {} THEN <<>>
    ELSE LET m == CHOOSE i \in DOMAIN pages :
                      \A j \in DOMAIN pages :
                          j = i \/ StrLess(pages[i]["title"], pages[j]["title"])
         IN  <<pages[m]>> \o SortedPages([j \in (DOMAIN pages) \ {m} |-> pages[j]])

\* the body of 'for redirect in page.get("redirects", [])'
RECURSIVE AddRedirects(_, _, _)
AddRedirects(table, target_title, rds) ==
    IF Len(rds) = 0 THEN table
    ELSE LET redirect == rds[1]
             source_title == redirect["title"]
             has_fragment == "fragment" \in DOMAIN redirect
                             /\ Len(redirect["fragment"]) > 0
             target == IF has_fragment
                       THEN target_title \o <<"#">> \o redirect["fragment"]
                       ELSE target_title
         IN  AddRedirects(Update(table, source_title :> target), target_title, Tail(rds))

\* the body of 'for page in pages_snippet'
RECURSIVE AddPages(_, _)
AddPages(table, pages) ==
    IF Len(pages) = 0 THEN table
    ELSE LET page == pages[1]
             rds == IF "redirects" \in DOMAIN page THEN page["redirects"] ELSE <<>>
         IN  AddPages(AddRedirects(table, page["title"], rds), Tail(pages))

\* the body of 'for pages_snippet in self.query_continue(...)'
ConsumeSnippet(table, snippet) == AddPages(table, SortedPages(snippet["pages"]))

\* mutant: the lookup made with the title as given
resolve_redirect_asgiven(table, t) ==
    IF t \in DOMAIN table THEN table[t] ELSE t

\* resolve_redirect once the table is there
resolve_redirect(table, t) ==
    LET t2 == Replace(t, "_", " ")
    IN  IF t2 \in DOMAIN table THEN table[t2] ELSE t2

ResolveTitles == {Str_a_sp_b, Str_a_us_b, Str_c, Str_g, Str_z, Str_z_us_z}

QueryInit ==
    /\ fpc = "idle"
    /\ redirects_none = TRUE
    /\ redirects = EmptyDict
    /\ ns_index = 0
    /\ query = EmptyDict
    /\ last_continue = EmptyDict
    /\ result = EmptyDict
    /\ requests = <<>>
    /\ responses = <<>>
    /\ yielded = <<>>
    /\ printed = <<>>
    /\ exc = ""
    /\ resolve_arg = None
    /\ resolve_result = None
    /\ TitleOff
    /\ MainOff

\* resolve_redirect(title): with the table loaded it returns at once; else
\* redirects() enters _fetch_redirects, which sets self._redirects = {}
ResolveRedirect ==
    /\ fpc \in {"idle", "ready"}
    /\ \E t \in ResolveTitles :
        /\ resolve_arg' = t
        /\ IF redirects_none
           THEN /\ redirects_none' = FALSE
                /\ redirects' = EmptyDict
                /\ query' = query_allredirects
                /\ ns_index' = 1
                /\ resolve_result' = None
                /\ fpc' = "next_ns"
           ELSE /\ resolve_result' = resolve_redirect(redirects, t)
                /\ fpc' = "ready"
                /\ UNCHANGED <<redirects_none, redirects, query, ns_index>>
    /\ UNCHANGED <<last_continue, result, requests, responses, yielded, printed, exc,
                   titleVars, mainVars>>

\* for ns in namespaces: query_allredirects["gapnamespace"] = ns and a new
\* generator self.query_continue(query_allredirects)
NextNamespace ==
    /\ fpc = "next_ns"
    /\ ns_index <= Len(fetch_namespaces)
    /\ query' = Update(query, "gapnamespace" :> fetch_namespaces[ns_index])
    /\ last_continue' = InitialContinue
    /\ result' = EmptyDict
    /\ requests' = <<>>
    /\ responses' = <<>>
    /\ yielded' = <<>>
    /\ printed' = <<>>
    /\ fpc' = "request"
    /\ UNCHANGED <<redirects_none, redirects, ns_index, exc, resolve_arg,
                   resolve_result, titleVars, mainVars>>

\* the loop over the namespaces is over: _fetch_redirects returns and
\* resolve_redirect answers from the table
FetchDone ==
    /\ fpc = "next_ns"
    /\ ns_index > Len(fetch_namespaces)
    /\ resolve_result' = resolve_redirect(redirects, resolve_arg)
    /\ fpc' = "ready"
    /\ UNCHANGED <<redirects_none, redirects, ns_index, query, last_continue, result,
                   requests, responses, yielded, printed, exc, resolve_arg, titleVars, mainVars>>

\* one turn of 'while True' up to the raise, the yield, the break or the
\* next turn: the merge, self.call and the checks of its result
CallApi ==
    /\ fpc = "request"
    /\ Len(requests) < MaxRequests
    /\ \E res \in Responses(fetch_namespaces[ns_index]) :
        LET merged == MergeContinue(query, last_continue)
            after == AfterCall(res)
        IN  /\ query' = merged.query
            /\ requests' = Append(requests, merged.query_copy)
            /\ responses' = Append(responses, res)
            /\ result' = res
            /\ printed' = PrintWarnings(printed, res)
            /\ exc' = IF after = "raise" THEN res["error"] ELSE exc
            /\ yielded' = IF after = "yield" THEN Append(yielded, res["query"])
                          ELSE yielded
            /\ last_continue' = IF after = "loop" THEN res["continue"]
                                ELSE last_continue
            /\ fpc' = CASE after = "raise" -> "raised"
                        [] after = "yield" -> "yielded"
                        [] after = "break" -> "exhausted"
                        [] OTHER -> "request"
    /\ UNCHANGED <<redirects_none, redirects, ns_index, resolve_arg, resolve_result,
                   titleVars, mainVars>>

\* the consumer's loop body on the yielded batch, then the generator resumed
\* after its yield: break, or last_continue = result["continue"]
ConsumeBatch ==
    /\ fpc = "yielded"
    /\ redirects' = ConsumeSnippet(redirects, yielded[Len(yielded)])
    /\ last_continue' = IF AfterYield(result) = "loop" THEN result["continue"]
                        ELSE last_continue
    /\ fpc' = IF AfterYield(result) = "break" THEN "exhausted" ELSE "request"
    /\ UNCHANGED <<redirects_none, ns_index, query, result, requests, responses,
                   yielded, printed, exc, resolve_arg, resolve_result, titleVars, mainVars>>

\* the generator is exhausted: the for loop goes to the next namespace
GeneratorReturn ==
    /\ fpc = "exhausted"
    /\ ns_index' = ns_index + 1
    /\ fpc' = "next_ns"
    /\ UNCHANGED <<redirects_none, redirects, query, last_continue, result, requests,
                   responses, yielded, printed, exc, resolve_arg, resolve_result,
                   titleVars, mainVars>>

QueryNext ==
    \/ ResolveRedirect
    \/ NextNamespace
    \/ FetchDone
    \/ CallApi
    \/ ConsumeBatch
    \/ GeneratorReturn

SpecQuery == QueryInit /\ [][QueryNext]_vars

-----------------------------------------------------------------------------
(* Driver of the title functions: one title, each function applied to it *)

Alphabet == {"a", " ", "_", ":", "/", "."}

Prefixes == {Str_Help, Str_Help_talk, Str_Help_sp_talk, Str_File, Str_Main,
             Str_help, Str_User, Str_Template, <<"X">>}

Remainders == StringsUpTo(Alphabet, MaxLen)

\* MediaWiki titles are never empty (and the regular expression matches no
\* empty title)
Titles ==
    (Remainders \ {<<>>})
    \cup {p \o <<":">> \o r : p \in Prefixes, r \in Remainders}
    \cup {Str_Installation_guide, Str_Template_Note}

Bases == {Str_out, <<"o">>}

TitleInit ==
    /\ tpc = "start"
    /\ title \in Titles
    /\ basepath \in Bases
    /\ pure_title = None
    /\ detected_namespace = None
    /\ rejoined = None
    /\ re_result = None
    /\ path = None
    /\ other = None
    /\ other_identity = None
    /\ other_path = None
    /\ QueryOff
    /\ MainOff

\* pure_title, namespace = self.detect_namespace(title)
DetectNamespace ==
    /\ tpc = "start"
    /\ pure_title' = detect_namespace(title)[1]
    /\ detected_namespace' = detect_namespace(title)[2]
    /\ tpc' = "detected"
    /\ UNCHANGED <<title, basepath, rejoined, re_result, path, other, other_identity,
                   other_path, queryVars, mainVars>>

\* the re-join of the round trip: namespace:pure_title, spaces as underscores
Rejoin(ns, pt) == Replace(ns \o <<":">> \o pt, " ", "_")

\* the round trip: re-join the detected pair and detect again
RoundTrip ==
    /\ tpc = "detected"
    /\ rejoined' = Rejoin(detected_namespace, pure_title)
    /\ re_result' = detect_namespace(Rejoin(detected_namespace, pure_title))
    /\ tpc' = "rejoined"
    /\ UNCHANGED <<title, basepath, pure_title, detected_namespace, path, other,
                   other_identity, other_path, queryVars, mainVars>>

\* path = self.get_local_filename(title, basepath)
GetLocalFilename ==
    /\ tpc = "rejoined"
    /\ path' = get_local_filename(title, basepath)
    /\ tpc' = "mapped"
    /\ UNCHANGED <<title, basepath, pure_title, detected_namespace, rejoined,
                   re_result, other, other_identity, other_path,
                   queryVars, mainVars>>

TitleNext == DetectNamespace \/ RoundTrip \/ GetLocalFilename

SpecTitle == TitleInit /\ [][TitleNext]_vars

-----------------------------------------------------------------------------
(* Two titles mapped with the same base (get_local_filename called twice) *)

PathAlphabet == {"a", "b", "/"}

\* titles of pages and subpages: letters and slashes between letters
PathRemainders ==
    {r \in StringsUpTo(PathAlphabet, MaxPathLen) :
        Len(r) > 0 /\ r[1] # "/" /\ r[Len(r)] # "/"}

PathTitles ==
    PathRemainders
    \cup {p \o <<":">> \o r : p \in {Str_File, Str_User}, r \in PathRemainders}

CollideInit ==
    /\ tpc = "start"
    /\ title \in PathTitles
    /\ other \in PathTitles
    /\ basepath \in Bases
    /\ pure_title = None
    /\ detected_namespace = None
    /\ rejoined = None
    /\ re_result = None
    /\ path = None
    /\ other_identity = None
    /\ other_path = None
    /\ QueryOff
    /\ MainOff

\* get_local_filename(title, basepath), the detected pair kept
MapFirst ==
    /\ tpc = "start"
    /\ pure_title' = detect_namespace(title)[1]
    /\ detected_namespace' = detect_namespace(title)[2]
    /\ path' = get_local_filename(title, basepath)
    /\ tpc' = "first"
    /\ UNCHANGED <<title, basepath, rejoined, re_result, other, other_identity,
                   other_path, queryVars, mainVars>>

\* get_local_filename(other, basepath), the detected pair kept
MapSecond ==
    /\ tpc = "first"
    /\ other_identity' = detect_namespace(other)
    /\ other_path' = get_local_filename(other, basepath)
    /\ tpc' = "second"
    /\ UNCHANGED <<title, basepath, pure_title, detected_namespace, rejoined,
                   re_result, path, other, queryVars, mainVars>>

CollideNext == MapFirst \/ MapSecond

SpecCollide == CollideInit /\ [][CollideNext]_vars

-----------------------------------------------------------------------------
(* The main script *)

\* datetime.datetime(2026, 1, 2, ...) on the scale 0..MaxTime
FixedEpoch == 1

Time == 0..MaxTime

main_namespaces == <<"0", "4", "12", "14">>

\* if args.force: epoch = now() else: epoch = the fixed date
ChooseEpoch(f, t) == IF f THEN t ELSE FixedEpoch

\* mutant: a failed namespace walk is caught and the loop goes on
OnRaise_caught(pos) == IF pos = "walk" THEN "loop" ELSE "aborted"

\* an exception raised by a call of the script: no handler, the run ends
OnRaise(pos) == "aborted"

\* the fetch decision of the Downloader: fetch if no local file exists or
\* the last-revision timestamp is at or after the epoch, skip otherwise
SyncDecision(ts, ep, exists) ==
    IF ~exists \/ ts >= ep THEN "fetch" ELSE "skip"

MainInit ==
    /\ mpc = "start"
    /\ force \in BOOLEAN
    /\ clean \in BOOLEAN
    /\ now \in Time
    /\ epoch = 0
    /\ started = <<>>
    /\ completed = <<>>
    /\ page_ts = 0
    /\ page_exists = FALSE
    /\ decision = "none"
    /\ cleaned = FALSE
    /\ TitleOff
    /\ QueryOff

\* lines 32-42: the epoch, the API, the optimizer and the downloader
Startup ==
    /\ mpc = "start"
    /\ epoch' = ChooseEpoch(force, now)
    /\ mpc' = "css"
    /\ UNCHANGED <<force, clean, now, started, completed, page_ts, page_exists,
                   decision, cleaned, titleVars, queryVars>>

\* downloader.download_css(), which returns or raises
DownloadCss ==
    /\ mpc = "css"
    /\ \E ok \in BOOLEAN : mpc' = IF ok THEN "print" ELSE OnRaise("css")
    /\ UNCHANGED <<force, clean, now, epoch, started, completed, page_ts,
                   page_exists, decision, cleaned, titleVars, queryVars>>

\* print_namespaces(api)
PrintNamespaces ==
    /\ mpc = "print"
    /\ mpc' = "loop"
    /\ UNCHANGED <<force, clean, now, epoch, started, completed, page_ts,
                   page_exists, decision, cleaned, titleVars, queryVars>>

\* for ns in [...]: downloader.process_namespace(ns) is entered
BeginNamespace ==
    /\ mpc = "loop"
    /\ Len(completed) < Len(main_namespaces)
    /\ started' = Append(started, main_namespaces[Len(completed) + 1])
    /\ mpc' = "walk"
    /\ UNCHANGED <<force, clean, now, epoch, completed, page_ts, page_exists,
                   decision, cleaned, titleVars, queryVars>>

\* process_namespace: the next listed page gets its fetch decision
DecidePage ==
    /\ mpc = "walk"
    /\ \E ts \in Time, exists \in BOOLEAN :
        /\ page_ts' = ts
        /\ page_exists' = exists
        /\ decision' = SyncDecision(ts, epoch, exists)
    /\ UNCHANGED <<mpc, force, clean, now, epoch, started, completed, cleaned,
                   titleVars, queryVars>>

\* process_namespace returns: every page of the namespace was listed
EndNamespace ==
    /\ mpc = "walk"
    /\ completed' = Append(completed, started[Len(started)])
    /\ mpc' = "loop"
    /\ UNCHANGED <<force, clean, now, epoch, started, page_ts, page_exists,
                   decision, cleaned, titleVars, queryVars>>

\* process_namespace raises (a remote query error, a filesystem error)
FailNamespace ==
    /\ mpc = "walk"
    /\ mpc' = OnRaise("walk")
    /\ UNCHANGED <<force, clean, now, epoch, started, completed, page_ts,
                   page_exists, decision, cleaned, titleVars, queryVars>>

\* downloader.download_images(), which returns or raises
DownloadImages ==
    /\ mpc = "loop"
    /\ Len(completed) = Len(main_namespaces)
    /\ \E ok \in BOOLEAN : mpc' = IF ok THEN "clean" ELSE OnRaise("images")
    /\ UNCHANGED <<force, clean, now, epoch, started, completed, page_ts,
                   page_exists, decision, cleaned, titleVars, queryVars>>

\* if args.clean: downloader.clean_output_directory()
CleanOutputDirectory ==
    /\ mpc = "clean"
    /\ cleaned' = clean
    /\ mpc' = "done"
    /\ UNCHANGED <<force, clean, now, epoch, started, completed, page_ts,
                   page_exists, decision, titleVars, queryVars>>

MainNext ==
    \/ Startup
    \/ DownloadCss
    \/ PrintNamespaces
    \/ BeginNamespace
    \/ DecidePage
    \/ EndNamespace
    \/ FailNamespace
    \/ DownloadImages
    \/ CleanOutputDirectory

SpecMain == MainInit /\ [][MainNext]_vars

-----------------------------------------------------------------------------
(* Claims about the title functions *)

\* the positions k of a colon of t with a non-empty remainder after it
ColonsBeforeRemainder(t) == {k \in 1..(Len(t) - 1) : t[k] = ":"}

\* C5: for every title P:R with R non-empty (R may contain colons) whose P,
\* underscores read as spaces, is a namespace display name, detect_namespace
\* returns (R, that namespace); for every other title it returns
\* (the whole title, Main).
C5_DetectAnyPrefix ==
    tpc # "start" =>
        LET named == {k \in ColonsBeforeRemainder(title) :
                         Replace(SubSeq(title, 1, k - 1), "_", " ") \in namespace_values}
        IN  /\ \A k \in named :
                   /\ pure_title = SubSeq(title, k + 1, Len(title))
                   /\ detected_namespace = Replace(SubSeq(title, 1, k - 1), "_", " ")
            /\ named = {} => (pure_title = title /\ detected_namespace = Str_Main)

\* C6: re-joining the detected (namespace, pure title) with underscores and
\* detecting again returns the same pair.
C6_RoundTrip ==
    tpc \in {"rejoined", "mapped"} => re_result = <<pure_title, detected_namespace>>

\* C7: two titles whose (namespace, pure title) pairs differ never get the
\* same local path with the same base.
C7_NoCollision ==
    (tpc = "second" /\ <<pure_title, detected_namespace>> # other_identity)
        => path # other_path

\* the four rules as the claim states them, on the underscored names
RulePath(ns, t, base) ==
    LET n == Replace(ns, " ", "_")
        u == Replace(t, " ", "_")
        sub == base \o <<"/", "z", "h", "-", "h", "a", "n", "s", "/">>
        html == <<".", "h", "t", "m", "l">>
    IN  CASE n = <<"M", "a", "i", "n">> -> sub \o u \o html
          [] n \in {Str_Talk, Str_ArchWiki, Str_ArchWiki_talk, Str_Template,
                    Str_Template_talk, Str_Help, Str_Help_talk, Str_Category,
                    Str_Category_talk} -> sub \o n \o <<":">> \o u \o html
          [] n = <<"F", "i", "l", "e">> -> base \o <<"/">> \o n \o <<":">> \o u
          [] OTHER -> base \o <<"/">> \o n \o <<":">> \o u \o html

\* a path that normalization leaves alone: no empty, '.' or '..' component
\* after the leading slash
IsPlainPath(p) ==
    LET comps == SplitSlash(p)
    IN  \A i \in 1..Len(comps) :
            /\ comps[i] \notin {<<".">>, <<".", ".">>}
            /\ comps[i] = <<>> => (i = 1 /\ Len(comps) > 1)

\* C8: get_local_filename gives the path of the rule of the detected
\* namespace (Main, content namespace, File, other), spaces written as
\* underscores, normalized; in particular the two examples with base /out.
C8_PathRules ==
    tpc = "mapped" =>
        LET raw == RulePath(detected_namespace, pure_title, basepath)
        IN  /\ IsPlainPath(raw) => path = raw
            /\ path = normpath(raw)
            /\ (title = Str_Installation_guide /\ basepath = Str_out) =>
                   path = Str_out \o <<"/">> \o Str_zh_hans \o <<"/">>
                          \o Replace(Str_Installation_guide, " ", "_")
                          \o <<".">> \o Str_html
            /\ (title = Str_Template_Note /\ basepath = Str_out) =>
                   path = Str_out \o <<"/">> \o Str_zh_hans \o <<"/">>
                          \o Str_Template_Note \o <<".">> \o Str_html

C8_Witness ==
    /\ tpc = "mapped"
    /\ title = Str_Template_Note
    /\ basepath = Str_out
    /\ detected_namespace = Str_Template
    /\ path = Str_out \o <<"/">> \o Str_zh_hans \o <<"/">> \o Str_Template_Note
              \o <<".">> \o Str_html

-----------------------------------------------------------------------------
(* Claims about query_continue and the redirect table *)

\* the results sections of the responses rs that carry one, in order
RECURSIVE BatchesOf(_)
BatchesOf(rs) ==
    IF Len(rs) = 0 THEN <<>>
    ELSE IF "query" \in DOMAIN rs[1]
    THEN <<rs[1]["query"]>> \o BatchesOf(Tail(rs))
    ELSE BatchesOf(Tail(rs))

AllCarryResults ==
    \A i \in 1..Len(responses) :
        "query" \in DOMAIN responses[i] /\ "error" \notin DOMAIN responses[i]

\* C2: when the N responses of a call all carry results, the first N-1 a
\* continuation token and the last none, the call yields exactly the N
\* batches in response order, issues exactly N requests and is over: no
\* request follows a response without a token, and the generator is exhausted
\* only after such a response.
C2_ExactlyNBatches ==
    AllCarryResults =>
        LET N == Len(responses)
        IN  /\ Len(requests) = N
            /\ yielded = [i \in 1..N |-> responses[i]["query"]]
            /\ \A i \in 1..(N - 1) : "continue" \in DOMAIN responses[i]
            /\ fpc = "request" => (N = 0 \/ "continue" \in DOMAIN responses[N])
            /\ fpc = "exhausted" => (N >= 1 /\ "continue" \notin DOMAIN responses[N])

C2_Witness ==
    /\ fpc = "exhausted"
    /\ AllCarryResults
    /\ Len(responses) = 3
    /\ Len(requests) = 3
    /\ Len(yielded) = 3

\* C3: a response with an error section makes the call fail at once with the
\* error payload: it is the last response of the call, its results section is
\* not yielded, no request follows it, whether or not it carries a
\* continuation token; and the call fails in no other case.
C3_ErrorFailsAtOnce ==
    /\ \A i \in 1..Len(responses) :
          "error" \in DOMAIN responses[i] =>
              /\ i = Len(responses)
              /\ fpc = "raised"
              /\ exc = responses[i]["error"]
              /\ Len(requests) = i
              /\ yielded = BatchesOf(SubSeq(responses, 1, i - 1))
    /\ fpc = "raised" =>
          (Len(responses) >= 1 /\ "error" \in DOMAIN responses[Len(responses)])

C3_Witness ==
    /\ fpc = "raised"
    /\ Len(responses) = 2
    /\ "query" \in DOMAIN result
    /\ "continue" \in DOMAIN result
    /\ exc = "badtoken"
    /\ Len(yielded) = 1
    /\ Len(requests) = 2

\* C9 as stated: a title that is no key of the table is returned unchanged,
\* a title that is a key gives its target.
C9_UnchangedUnlessKey ==
    resolve_result # None =>
        IF resolve_arg \in DOMAIN redirects
        THEN resolve_result = redirects[resolve_arg]
        ELSE resolve_result = resolve_arg

\* C9 amended: the lookup is made with the title's underscores written as
\* spaces; a title whose spaced form is no key is returned in that spaced form
\* (unchanged when it has no underscore), one whose spaced form is a key gives
\* the target.
C9_SpacedForm ==
    resolve_result # None =>
        LET spaced == [i \in 1..Len(resolve_arg) |->
                          IF resolve_arg[i] = "_" THEN " " ELSE resolve_arg[i]]
        IN  /\ spaced \in DOMAIN redirects => resolve_result = redirects[spaced]
            /\ spaced \notin DOMAIN redirects => resolve_result = spaced
            /\ (spaced \notin DOMAIN redirects /\ \A i \in 1..Len(resolve_arg) :
                    resolve_arg[i] # "_") => resolve_result = resolve_arg

C9_Witness ==
    /\ fpc = "ready"
    /\ Str_a_sp_b \in DOMAIN redirects
    /\ resolve_arg = Str_z_us_z
    /\ resolve_result = <<"z", " ", "z">>

\* the namespace of the call of query_continue that the recorded requests
\* belong to
CallNamespace ==
    IF fpc \in {"next_ns", "ready"} THEN ns_index - 1 ELSE ns_index

\* C10: every request is the caller's base query overridden by the
\* continuation section of the response just before it (the initial
\* {"continue": ""} for the first request of each call), so no sub-parameter
\* of an older response and nothing of an earlier call is sent, and the
\* caller's query keeps its value.
C10_BasePlusLastContinue ==
    LET base == [k \in (DOMAIN query_allredirects) \cup {"gapnamespace"} |->
                    IF k = "gapnamespace" THEN fetch_namespaces[CallNamespace]
                    ELSE query_allredirects[k]]
    IN  /\ fpc \in {"request", "yielded", "exhausted", "raised"} => query = base
        /\ \A i \in 1..Len(requests) :
              LET cont == IF i = 1 THEN ("continue" :> "")
                          ELSE responses[i - 1]["continue"]
              IN  /\ DOMAIN requests[i] = (DOMAIN base) \cup (DOMAIN cont)
                  /\ \A k \in DOMAIN requests[i] :
                        requests[i][k] = IF k \in DOMAIN cont THEN cont[k] ELSE base[k]

C10_Witness ==
    /\ ns_index = 2
    /\ Len(requests) = 3
    /\ "gapcontinue" \in DOMAIN requests[2]
    /\ "gapcontinue" \notin DOMAIN requests[3]
    /\ "rdcontinue" \in DOMAIN requests[3]

-----------------------------------------------------------------------------
(* Claims about the main script *)

IsPrefix(s, t) == Len(s) <= Len(t) /\ \A i \in 1..Len(s) : s[i] = t[i]

\* C1: clean_output_directory is invoked only after process_namespace has
\* returned for each of the namespaces 0, 4, 12, 14, which are walked in that
\* order with each one returned from before the next is entered; a run in
\* which a walk raised never invokes it.
C1_CleanOnlyAfterAllNamespaces ==
    /\ IsPrefix(started, <<"0", "4", "12", "14">>)
    /\ IsPrefix(completed, started)
    /\ Len(started) - Len(completed) \in {0, 1}
    /\ mpc = "walk" => Len(started) = Len(completed) + 1
    /\ Len(started) > Len(completed) => mpc \in {"walk", "aborted"}
    /\ cleaned => (completed = <<"0", "4", "12", "14">> /\ clean /\ mpc = "done")
    /\ mpc \in {"clean", "done"} => completed = <<"0", "4", "12", "14">>
    /\ mpc = "aborted" => ~cleaned

C1_Witness ==
    /\ cleaned
    /\ mpc = "done"
    /\ completed = <<"0", "4", "12", "14">>

\* C4: in force mode the epoch is the startup time and every page is
\* fetched, with or without a local file and whatever its timestamp.
C4_ForceFetchesEveryPage ==
    /\ (force /\ mpc # "start") => epoch = now
    /\ (force /\ decision # "none") => decision = "fetch"

====
